---- MODULE Spec2Model ----
(***************************************************************************)
(* A model of the vector space retrieval engine of src/ir/vectorspace.py   *)
(* (classes VectorSpace and Documents) and of the result printing of       *)
(* src/project/question_2/main.py.                                         *)
(*                                                                         *)
(* Strings are sequences of words; the length of a string is the length of *)
(* its words joined by single spaces.  Python's None is the empty tuple    *)
(* and a present value v is the 1-tuple <<v>>.  A dict is the sequence of  *)
(* its <<key, value>> items in insertion order.  Document ids are 0-based  *)
(* as in Python; row d of a matrix is element d + 1 of the sequence.       *)
(***************************************************************************)
EXTENDS Integers, Sequences, FiniteSets, TLC

VARIABLES
    disk,              \* the listing of the documents directory: <<file name, content>> in os.listdir order
    weighting_model,   \* VectorSpace.weighting_model: the model passed to the constructor
    vocabulary,        \* state of the weighting model: None, or <<terms>> once make_matrix has run
    docs,              \* VectorSpace.docs: None or <<Documents object>>
    documents_vector,  \* VectorSpace.documents_vector
    query_vector,      \* VectorSpace.query_vector
    quey_vector,       \* VectorSpace.quey_vector: None while the attribute does not exist
    op,                \* the last call: [name, args]
    result,            \* what the last call did: [kind, scores, metric]; metric is None or
                       \* <<the (matrix, vector) the metric was called with>>
    built,             \* whether a build of this instance has completed
    ratings,           \* main.py: the score vector handed to the printing code
    printed            \* main.py: None, or <<the (index, score) rows printed>>

vars == <<disk, weighting_model, vocabulary, docs, documents_vector, query_vector, quey_vector,
          op, result, built, ratings, printed>>

-----------------------------------------------------------------------------
(* Bounds of the model *)

MaxFiles == 2      \* files in the directory listing
MaxDocs == 3       \* documents of a Documents object in SpecDocs
MaxRatings == 11   \* length of the score vector in SpecMain

-----------------------------------------------------------------------------
(* Python values *)

None == <<>>
Some(v) == <<v>>
Val(o) == o[1]

Min(a, b) == IF a < b THEN a ELSE b

Range(s) == {s[i] : i \in 1..Len(s)}

Injective(s) == \A i, j \in 1..Len(s) : s[i] = s[j] => i = j

\* all sequences without repetition of exactly k elements of S
RECURSIVE Arrangements(_, _)
Arrangements(S, k) ==
    IF k = 0 THEN {<<>>}
    ELSE UNION {{<<x>> \o t : t \in Arrangements(S \ {x}, k - 1)} : x \in S}

\* the length of a word
WordLen(w) == CASE w = "a" -> 1 [] w = "bb" -> 2 [] w = "the" -> 3 [] w = "zz" -> 2

RECURSIVE SumLen(_)
SumLen(ws) == IF ws = <<>> THEN 0 ELSE WordLen(Head(ws)) + SumLen(Tail(ws))

\* len(s) of the string " ".join(ws)
StrLen(ws) == IF ws = <<>> THEN 0 ELSE SumLen(ws) + Len(ws) - 1

\* dict[k] = v: a present key keeps its place, a new key goes last
DictSet(d, k, v) ==
    IF \E i \in 1..Len(d) : d[i][1] = k
    THEN [i \in 1..Len(d) |-> IF d[i][1] = k THEN <<k, v>> ELSE d[i]]
    ELSE Append(d, <<k, v>>)

DictKeys(d) == [i \in 1..Len(d) |-> d[i][1]]
DictValues(d) == [i \in 1..Len(d) |-> d[i][2]]
DictGet(d, k) == d[CHOOSE i \in 1..Len(d) : d[i][1] = k][2]

\* a faulty variant of PyIndex: negative indices are rejected
PyIndexFromZero(n, i) == IF 0 <= i /\ i < n THEN <<TRUE, i + 1>> ELSE <<FALSE, 0>>

\* seq[i] for a Python index i: <<TRUE, position>> or <<FALSE, 0>> for IndexError
PyIndex(n, i) ==
    IF 0 <= i /\ i < n THEN <<TRUE, i + 1>>
    ELSE IF i < 0 /\ i + n >= 0 THEN <<TRUE, i + n + 1>>
    ELSE <<FALSE, 0>>

-----------------------------------------------------------------------------
(* The collaborators of vectorspace.py: the parser (ir.myparser.Parser),   *)
(* the weighting model (ir.model) and the metric (ir.metric.Metric)        *)

Stopwords == {"the"}
IsNotStopword(w) == w \notin Stopwords

\* The parser is total: tokenise and remove_stopwords return for every string.
\* Parser.tokenise: the words of the string
tokenise(content) == content

\* Parser.remove_stopwords: the words that are no stop words, in order
remove_stopwords(words) == SelectSeq(words, IsNotStopword)

\* the column order of the vocabulary: sorted term order
TermOrder == <<"a", "bb", "the", "zz">>

RECURSIVE Terms(_)
Terms(contents) ==
    IF contents = <<>> THEN {}
    ELSE Range(remove_stopwords(tokenise(Head(contents)))) \cup Terms(Tail(contents))

IsIn(S, w) == w \in S

Ordered(T) == SelectSeq(TermOrder, LAMBDA w : IsIn(T, w))

\* the vocabulary that make_matrix establishes for a corpus
Vocabulary(contents) == Ordered(Terms(contents))

Count(words, w) == Cardinality({i \in 1..Len(words) : words[i] = w})

Counts(vocab, words) == [c \in 1..Len(vocab) |-> Count(words, vocab[c])]

\* a text projected into the column space of a vocabulary (raw term frequency)
Vectorize(vocab, text) == Counts(vocab, remove_stopwords(tokenise(text)))

\* the rows of a corpus over a vocabulary: one row per document, in the order given
Rows(vocab, contents) == [i \in 1..Len(contents) |-> Vectorize(vocab, contents[i])]

\* weighting_model.make_matrix
make_matrix(contents) == Rows(Vocabulary(contents), contents)

\* The weighting models a VectorSpace can be constructed with: "tf" makes a
\* matrix of every corpus; "strict" raises on a corpus without any term (an
\* empty vocabulary: no document, or only stop words).
WeightingModels == {"tf", "strict"}
make_matrix_raises(model, contents) == model = "strict" /\ Vocabulary(contents) = <<>>

\* weighting_model.make_vector: the query in the vocabulary of the built matrix
make_vector(vocab, query) == Vectorize(vocab, query)

RECURSIVE DotFrom(_, _, _)
DotFrom(u, v, i) == IF i > Len(u) THEN 0 ELSE u[i] * v[i] + DotFrom(u, v, i + 1)
Dot(u, v) == DotFrom(u, v, 1)

\* the cosine of two vectors as <<dot, |r|^2, |v|^2>>, and <<0, 0, 0>> for the
\* defined score 0.0 of a zero vector
Cosine(r, v) ==
    IF Dot(r, r) = 0 \/ Dot(v, v) = 0 THEN <<0, 0, 0>>
    ELSE <<Dot(r, v), Dot(r, r), Dot(v, v)>>

\* Metric.cosine_similarity(matrix, vector): one score per row, in row order;
\* rows and vector of different lengths cannot be multiplied
cosine_similarity(matrix, vector) ==
    IF \E i \in 1..Len(matrix) : Len(matrix[i]) # Len(vector)
    THEN [kind |-> "ValueError", scores |-> <<>>]
    ELSE [kind |-> "scores",
          scores |-> [i \in 1..Len(matrix) |-> Cosine(matrix[i], vector)]]

-----------------------------------------------------------------------------
(* class Documents *)

\* f.endswith(".txt") of a file name <<stem, extension>>
EndsWithTxt(f) == f[2] = "txt"

IsTextEntry(e) == EndsWithTxt(e[1])

\* only_text_files: the names of the listing that end with .txt, in listing order
only_text_files(listing) == DictKeys(SelectSeq(listing, IsTextEntry))

\* a faulty variant of sample: a k above the population is cut to the population
sampleAtMost(population, k) ==
    IF k < 0 THEN {}
    ELSE Arrangements(Range(population), Min(k, Len(population)))

\* random.sample(population, k): the lists it can return; none when it raises
\* ValueError (k negative or larger than the population)
sample(population, k) ==
    IF k < 0 \/ k > Len(population) THEN {}
    ELSE Arrangements(Range(population), k)

\* the values `names` can take in _get_documents_name_content
SampledNames(listing, sample_size) ==
    IF sample_size = -1 THEN {only_text_files(listing)}
    ELSE sample(only_text_files(listing), sample_size)

RECURSIVE FillDict(_, _, _)
FillDict(d, names, contents) ==
    IF names = <<>> THEN d
    ELSE FillDict(DictSet(d, Head(names), Head(contents)), Tail(names), Tail(contents))

\* _get_documents_name_content once `names` is chosen: every file is read and
\* the names are mapped to the contents
get_documents_name_content(listing, names) ==
    FillDict(<<>>, names, [i \in 1..Len(names) |-> DictGet(listing, names[i])])

get_document_names(info) == DictKeys(info)
get_document_contents(info) == DictValues(info)

\* Documents.__init__ after the files are read
NewDocuments(info, to_sort) ==
    [info |-> info,
     document_names |-> get_document_names(info),
     document_contents |-> get_document_contents(info),
     to_sort |-> to_sort]

\* a faulty variant of update: the names are not refreshed
updateContentsOnly(d) == [d EXCEPT !.document_contents = get_document_contents(d.info)]

\* Documents._update
update(d) ==
    [d EXCEPT !.document_names = get_document_names(d.info),
              !.document_contents = get_document_contents(d.info)]

\* Documents._clean_single_document
clean_single_document(content) == remove_stopwords(tokenise(content))

\* the loop of clean_all_documents: self._info[name] = cleaned content, item by item
RECURSIVE clean_items(_, _)
clean_items(info, items) ==
    IF items = <<>> THEN info
    ELSE clean_items(DictSet(info, Head(items)[1], clean_single_document(Head(items)[2])),
                     Tail(items))

\* Documents.clean_all_documents
clean_all_documents(d) == update([d EXCEPT !.info = clean_items(d.info, d.info)])

\* a faulty variant of InsertByLen: the item goes before the items of equal
\* key, so equal keys end up reversed
RECURSIVE InsertByLenBeforeEqual(_, _)
InsertByLenBeforeEqual(sorted, item) ==
    IF sorted = <<>> THEN <<item>>
    ELSE IF Head(sorted)[2] > item[2]
         THEN <<Head(sorted)>> \o InsertByLenBeforeEqual(Tail(sorted), item)
    ELSE <<item>> \o sorted

\* sorted(items, key=lambda x: x[1], reverse=True): the item goes behind every
\* item whose key is at least its own, so equal keys keep their order
RECURSIVE InsertByLen(_, _)
InsertByLen(sorted, item) ==
    IF sorted = <<>> THEN <<item>>
    ELSE IF Head(sorted)[2] >= item[2] THEN <<Head(sorted)>> \o InsertByLen(Tail(sorted), item)
    ELSE <<item>> \o sorted

RECURSIVE SortedByLen(_, _)
SortedByLen(done, items) ==
    IF items = <<>> THEN done
    ELSE SortedByLen(InsertByLen(done, Head(items)), Tail(items))

\* name_len: the length of the content of every name
name_len(name_content) ==
    [i \in 1..Len(name_content) |-> <<name_content[i][1], StrLen(name_content[i][2])>>]

\* new_name_content: the contents looked up in the order of the sorted names
new_name_content(name_content, name_len_sorted) ==
    [i \in 1..Len(name_len_sorted) |->
        <<name_len_sorted[i][1], DictGet(name_content, name_len_sorted[i][1])>>]

\* the dict that sort_documents_by_size leaves in _info when sorting is on
sorted_name_content(name_content) ==
    new_name_content(name_content, SortedByLen(<<>>, name_len(name_content)))

\* Documents.sort_documents_by_size
sort_documents_by_size(d) ==
    IF ~d.to_sort THEN update(d)
    ELSE update([d EXCEPT !.info = sorted_name_content(d.info)])

-----------------------------------------------------------------------------
(* class VectorSpace *)

\* the files a documents directory can hold, each with its content, and the
\* listings (os.listdir order is arbitrary) the model can start from
FileNames == {<<"x", "txt">>, <<"y", "txt">>, <<"z", "txt">>, <<"n", "md">>}
FileContent(f) ==
    CASE f = <<"x", "txt">> -> <<"the">>
      [] f = <<"y", "txt">> -> <<"a">>
      [] f = <<"z", "txt">> -> <<"the", "a">>
      [] f = <<"n", "md">> -> <<"bb", "a">>
Listings ==
    UNION {{[i \in 1..k |-> <<names[i], FileContent(names[i])>>] :
                names \in Arrangements(FileNames, k)} : k \in 0..MaxFiles}

SampleSizes == -1..(MaxFiles + 1)
DocIds == -(MaxFiles + 1)..MaxFiles
Queries == {<<>>, <<"a", "zz">>}

Call(name, args) == [name |-> name, args |-> args]
Raised(kind) == [kind |-> kind, scores |-> <<>>, metric |-> None]
Returned(kind, scores, metric) == [kind |-> kind, scores |-> scores, metric |-> metric]

\* VectorSpace.__init__
InitVectorSpace ==
    /\ vocabulary = None
    /\ docs = None
    /\ documents_vector = <<<<>>>>
    /\ query_vector = <<>>
    /\ quey_vector = None
    /\ op = Call("init", <<>>)
    /\ result = Returned("none", <<>>, None)
    /\ built = FALSE

\* VectorSpace.build
build(sample_size, to_sort) ==
    /\ op' = Call("build", <<sample_size, to_sort>>)
    /\ \/ \* random.sample raises ValueError inside Documents(...)
          /\ SampledNames(disk, sample_size) = {}
          /\ result' = Raised("ValueError")
          /\ UNCHANGED <<vocabulary, docs, documents_vector, built>>
       \/ \* reading one of the chosen files raises inside Documents(...)
          /\ \E names \in SampledNames(disk, sample_size) : names # <<>>
          /\ result' = Raised("IOError")
          /\ UNCHANGED <<vocabulary, docs, documents_vector, built>>
       \/ \* Documents(...) returns and is assigned to self.docs
          \E names \in SampledNames(disk, sample_size) :
              \E sorted \in {sort_documents_by_size(clean_all_documents(
                                 NewDocuments(get_documents_name_content(disk, names), to_sort)))} :
                  /\ docs' = Some(sorted)
                  /\ IF make_matrix_raises(weighting_model, sorted.document_contents)
                     THEN /\ result' = Raised("ModelError")
                          /\ UNCHANGED <<vocabulary, documents_vector, built>>
                     ELSE /\ documents_vector' = make_matrix(sorted.document_contents)
                          /\ vocabulary' = Some(Vocabulary(sorted.document_contents))
                          /\ built' = TRUE
                          /\ result' = Returned("ok", <<>>, None)
    /\ UNCHANGED <<disk, weighting_model, query_vector, quey_vector, ratings, printed>>

\* VectorSpace.related
related(doc_id) ==
    /\ op' = Call("related", <<doc_id>>)
    /\ \E at \in {PyIndex(Len(documents_vector), doc_id)} :
          IF ~at[1] THEN result' = Raised("IndexError")
          ELSE \E scores \in {cosine_similarity(documents_vector, documents_vector[at[2]])} :
                   result' = Returned(scores.kind, scores.scores,
                                      Some(<<documents_vector, documents_vector[at[2]]>>))
    /\ UNCHANGED <<disk, weighting_model, vocabulary, docs, documents_vector,
                   query_vector, quey_vector, built, ratings, printed>>

\* a faulty variant of search: the query vector is stored over the matrix
searchOverMatrix(query) ==
    /\ op' = Call("search", <<query>>)
    /\ IF vocabulary = None
       THEN /\ result' = Raised("ModelNotBuilt")
            /\ UNCHANGED documents_vector
       ELSE /\ documents_vector' = <<make_vector(Val(vocabulary), query)>>
            /\ \E scores \in {cosine_similarity(documents_vector, query_vector)} :
                   result' = Returned(scores.kind, scores.scores,
                                      Some(<<documents_vector, query_vector>>))
    /\ UNCHANGED <<disk, weighting_model, vocabulary, docs, quey_vector,
                   query_vector, built, ratings, printed>>

\* VectorSpace.search
search(query) ==
    /\ op' = Call("search", <<query>>)
    /\ IF vocabulary = None
       THEN /\ result' = Raised("ModelNotBuilt")
            /\ UNCHANGED quey_vector
       ELSE /\ quey_vector' = Some(make_vector(Val(vocabulary), query))
            /\ \E scores \in {cosine_similarity(documents_vector, query_vector)} :
                   result' = Returned(scores.kind, scores.scores,
                                      Some(<<documents_vector, query_vector>>))
    /\ UNCHANGED <<disk, weighting_model, vocabulary, docs, documents_vector,
                   query_vector, built, ratings, printed>>

Init ==
    /\ disk \in Listings
    /\ weighting_model \in WeightingModels
    /\ InitVectorSpace
    /\ ratings = <<>>
    /\ printed = None

Next ==
    \/ \E sample_size \in SampleSizes, to_sort \in BOOLEAN : build(sample_size, to_sort)
    \/ \E doc_id \in DocIds : related(doc_id)
    \/ \E query \in Queries : search(query)

Spec == Init /\ [][Next]_vars

-----------------------------------------------------------------------------
(* A Documents object on its own: constructed over any files, then cleaned *)
(* and sorted by its methods                                               *)

DocNames == {<<i, "txt">> : i \in 1..MaxDocs}
DocContents == {<<"a">>, <<"the">>, <<"bb", "a">>, <<"the", "a">>, <<"the", "zz", "a">>}

\* _info after __init__: any files under distinct names, in any order
LoadedInfos ==
    UNION {{[i \in 1..k |-> <<names[i], contents[i]>>] :
                names \in Arrangements(DocNames, k), contents \in [1..k -> DocContents]}
           : k \in 0..MaxDocs}

InitDocs ==
    /\ disk = <<>>
    /\ weighting_model = "tf"
    /\ vocabulary = None
    /\ \E info \in LoadedInfos, to_sort \in BOOLEAN : docs = Some(NewDocuments(info, to_sort))
    /\ documents_vector = <<<<>>>>
    /\ query_vector = <<>>
    /\ quey_vector = None
    /\ op = Call("Documents", <<>>)
    /\ result = Returned("none", <<>>, None)
    /\ built = FALSE
    /\ ratings = <<>>
    /\ printed = None

DocsClean ==
    /\ docs' = Some(clean_all_documents(Val(docs)))
    /\ op' = Call("clean_all_documents", <<>>)
    /\ UNCHANGED <<disk, weighting_model, vocabulary, documents_vector, query_vector,
                   quey_vector, result, built, ratings, printed>>

DocsSort ==
    /\ docs' = Some(sort_documents_by_size(Val(docs)))
    /\ op' = Call("sort_documents_by_size", <<>>)
    /\ UNCHANGED <<disk, weighting_model, vocabulary, documents_vector, query_vector,
                   quey_vector, result, built, ratings, printed>>

NextDocs == DocsClean \/ DocsSort

SpecDocs == InitDocs /\ [][NextDocs]_vars

-----------------------------------------------------------------------------
(* main.py: printing the top results of a score vector *)

TopK == 10

\* scores in units of 1e-8
Scores == {4, 10}

\* round(x, 7) of a score in units of 1e-8
Round7(x) == ((x + 5) \div 10) * 10

Reverse(s) == [i \in 1..Len(s) |-> s[Len(s) + 1 - i]]

\* s[-k:]
LastK(s, k) == IF Len(s) <= k THEN s ELSE SubSeq(s, Len(s) - k + 1, Len(s))

\* the orders in which a sort can leave equal keys: numpy's default kind
\* (quicksort) is not stable.  A tie order ranks the indices; the rotations of
\* the increasing and of the decreasing ranking are taken, the stable order
\* (rank = index) among them.
TieOrders(n) ==
    {[i \in 1..n |-> ((i + r) % n)] : r \in 0..(n - 1)} \cup
    {[i \in 1..n |-> ((n - i + r) % n)] : r \in 0..(n - 1)}

\* whether index i goes before index j in an ascending sort under a tie order
Before(x, tie, i, j) == x[i] < x[j] \/ (x[i] = x[j] /\ tie[i] < tie[j])

RECURSIVE InsertIndex(_, _, _, _)
InsertIndex(s, i, x, tie) ==
    IF s = <<>> THEN <<i>>
    ELSE IF Before(x, tie, i, Head(s)) THEN <<i>> \o s
    ELSE <<Head(s)>> \o InsertIndex(Tail(s), i, x, tie)

RECURSIVE SortFrom(_, _, _, _)
SortFrom(s, i, x, tie) ==
    IF i > Len(x) THEN s ELSE SortFrom(InsertIndex(s, i, x, tie), i + 1, x, tie)

ZeroBased(s) == [p \in 1..Len(s) |-> s[p] - 1]

\* the permutation that sorts x ascending under a tie order, as 0-based indices
SortedIndices(x, tie) == ZeroBased(SortFrom(<<>>, 1, x, tie))

\* numpy.argsort(x): the index arrays it can return
argsort(x) == IF x = <<>> THEN {<<>>} ELSE {SortedIndices(x, tie) : tie \in TieOrders(Len(x))}

\* a faulty variant of top_ratings_index: the slice is not reversed
topRatingsAscending(sorted) == LastK(sorted, TopK)

\* argsort(ratings)[-10:][::-1] for one result of argsort
top_ratings_index(sorted) == Reverse(LastK(sorted, TopK))

\* the rows the loop prints: the index and the rounded score
print_rows(x, indices) ==
    [i \in 1..Len(indices) |-> <<indices[i], Round7(x[indices[i] + 1])>>]

InitMain ==
    /\ disk = <<>>
    /\ weighting_model = "tf"
    /\ InitVectorSpace
    /\ ratings \in UNION {[1..n -> Scores] : n \in 0..MaxRatings}
    /\ printed = None

PrintTop ==
    /\ printed = None
    /\ \E sorted \in argsort(ratings) :
           printed' = Some(print_rows(ratings, top_ratings_index(sorted)))
    /\ UNCHANGED <<disk, weighting_model, vocabulary, docs, documents_vector, query_vector,
                   quey_vector, op, result, built, ratings>>

NextMain == PrintTop

SpecMain == InitMain /\ [][NextMain]_vars

-----------------------------------------------------------------------------
(* Properties *)

IsCall(name) == op.name = name

\* C1: search(q) hands the metric the vector that make_vector produced for q
\* in that same call.
C1_SearchRanksAgainstQuery ==
    (IsCall("search") /\ result.metric # None) =>
        Val(result.metric)[2] = make_vector(Val(vocabulary), op.args[1])

\* the calls that raised, whatever the error is called
Failed == result.kind \in {"ValueError", "IOError", "IndexError", "ModelError", "ModelNotBuilt"}

\* C2: related and search on an instance no build of which has completed fail
\* (NotBuilt) and return no score vector.
C2_UnbuiltFails ==
    ((IsCall("related") \/ IsCall("search")) /\ ~built) => Failed

\* C3 as claimed: on a built instance with n rows, related(doc_id) fails with an
\* index error for every doc_id outside [0, n), the negative ones included, and
\* returns scores for 0 <= doc_id < n.
C3_RelatedFailsOutsideZeroToN ==
    (IsCall("related") /\ built) =>
        IF 0 <= op.args[1] /\ op.args[1] < Len(documents_vector)
        THEN result.kind = "scores"
        ELSE result.kind = "IndexError"

\* C3 as amended: related(doc_id) fails with an index error exactly for
\* doc_id < -n or doc_id >= n; for -n <= doc_id < n it returns n scores
\* against row doc_id mod n (a negative doc_id counts from the end).
C3_RelatedIndexesLikePython ==
    (IsCall("related") /\ built) =>
        LET n == Len(documents_vector)
            doc_id == op.args[1]
        IN  IF -n <= doc_id /\ doc_id < n
            THEN /\ result.kind = "scores"
                 /\ Len(result.scores) = n
                 /\ result.metric =
                        Some(<<documents_vector, documents_vector[((doc_id + n) % n) + 1]>>)
            ELSE /\ result.kind = "IndexError"
                 /\ result.metric = None

C3_Witness ==
    /\ IsCall("related") /\ built
    /\ op.args[1] = -1
    /\ Len(documents_vector) = 2
    /\ result.kind = "scores"
    /\ result.metric = Some(<<documents_vector, documents_vector[2]>>)

\* C4: a build that fails leaves docs and documents_vector as they were before
\* the call.
C4_FailedBuildLeavesInstance ==
    [][(op'.name = "build" /\ result'.kind # "ok") =>
           (docs' = docs /\ documents_vector' = documents_vector)]_vars

Position(info, name) == CHOOSE i \in 1..Len(info) : info[i][1] = name

\* whether `after` is `before` in an order that is non-increasing in content
\* length and keeps the relative order of contents of equal length
StableSortedBySize(before, after) ==
    /\ Len(after) = Len(before)
    /\ \A i \in 1..Len(before) : \E j \in 1..Len(after) : after[j] = before[i]
    /\ \A i, j \in 1..Len(after) :
          i < j => StrLen(after[i][2]) >= StrLen(after[j][2])
    /\ \A i, j \in 1..Len(before) :
          (i < j /\ StrLen(before[i][2]) = StrLen(before[j][2])) =>
              Position(after, before[i][1]) < Position(after, before[j][1])

\* C7: with sorting enabled, sort_documents_by_size leaves the documents in an
\* order non-increasing in content length that is a stable permutation of the
\* order before the call, and the name and content views follow it.
C7_SortIsStableBySize ==
    [][(op'.name = "sort_documents_by_size" /\ Val(docs).to_sort) =>
           /\ StableSortedBySize(Val(docs).info, Val(docs').info)
           /\ Val(docs').document_names = DictKeys(Val(docs').info)
           /\ Val(docs').document_contents = DictValues(Val(docs').info)]_vars

C7_Witness ==
    /\ IsCall("sort_documents_by_size")
    /\ Val(docs).to_sort
    /\ Len(Val(docs).info) = 3
    /\ \E i, j \in 1..3 :
          /\ i < j
          /\ StrLen(Val(docs).info[i][2]) = StrLen(Val(docs).info[j][2])
          /\ Val(docs).info[i][1][1] > Val(docs).info[j][1][1]
    /\ StrLen(Val(docs).info[1][2]) > StrLen(Val(docs).info[3][2])

\* C8: a build over a directory without any .txt file fails (EmptyCorpus),
\* and no Documents object with an empty document list is ever produced.
C8_EmptyDirectoryFails ==
    /\ (IsCall("build") /\ only_text_files(disk) = <<>>) => Failed
    /\ docs # None => Val(docs).document_names # <<>>

\* C9: a build with sample_size above the number of .txt files fails (ValueError
\* of random.sample) and leaves docs, documents_vector and the model as they
\* were; a sample_size in [0, available] loads exactly that many distinct .txt
\* files of the directory, and -1 loads every one.
C9_SampleSize ==
    [][op'.name = "build" =>
           LET sample_size == op'.args[1]
               available == only_text_files(disk)
           IN  /\ sample_size > Len(available) =>
                      /\ result'.kind = "ValueError"
                      /\ docs' = docs
                      /\ documents_vector' = documents_vector
                      /\ vocabulary' = vocabulary
               /\ (sample_size <= Len(available) /\ result'.kind # "IOError") =>
                      /\ docs' # None
                      /\ Injective(Val(docs').document_names)
                      /\ Range(Val(docs').document_names) \subseteq Range(available)
                      /\ Len(Val(docs').document_names) =
                             IF sample_size = -1 THEN Len(available) ELSE sample_size]_vars

C9_Witness ==
    /\ IsCall("build")
    /\ built
    /\ Len(Val(docs).document_names) = 1
    /\ Len(only_text_files(disk)) = 2
    /\ op.args[1] = 3
    /\ result.kind = "ValueError"

\* the score of the document that a printed row names
RowScore(row) == ratings[row[1] + 1]

\* what C10 says of the rows without its tie rule: the min(10, n) rows name
\* distinct documents, show their rounded scores, are in non-increasing order
\* of score, and no document left out scores higher than a printed one
TopRows(rows) ==
    /\ Len(rows) = Min(TopK, Len(ratings))
    /\ \A i \in 1..Len(rows) :
          /\ rows[i][1] \in 0..(Len(ratings) - 1)
          /\ rows[i][2] = Round7(RowScore(rows[i]))
    /\ \A i, j \in 1..Len(rows) :
          i < j => (rows[i][1] # rows[j][1] /\ RowScore(rows[i]) >= RowScore(rows[j]))
    /\ \A u \in 0..(Len(ratings) - 1) :
          (\A i \in 1..Len(rows) : rows[i][1] # u) =>
              \A i \in 1..Len(rows) : ratings[u + 1] <= RowScore(rows[i])

\* C10 as claimed: the ten highest scores are printed in descending order, and
\* of two documents with equal scores the one with the smaller index is
\* selected and printed before the other.
C10_TopTenTiesByIndex ==
    printed # None =>
        LET rows == Val(printed)
        IN  /\ TopRows(rows)
            /\ \A i, j \in 1..Len(rows) :
                  (i < j /\ RowScore(rows[i]) = RowScore(rows[j])) => rows[i][1] < rows[j][1]
            /\ \A u \in 0..(Len(ratings) - 1) :
                  (\A i \in 1..Len(rows) : rows[i][1] # u) =>
                      \A i \in 1..Len(rows) :
                          ratings[u + 1] = RowScore(rows[i]) => rows[i][1] < u

\* C10 as amended: the ten highest scores are printed in descending order;
\* the index does not decide between documents with equal scores.
C10_TopTenDescending == printed # None => TopRows(Val(printed))

C10_Witness ==
    /\ printed # None
    /\ Len(ratings) = MaxRatings
    /\ Len(Val(printed)) = TopK
    /\ RowScore(Val(printed)[1]) > RowScore(Val(printed)[TopK])
    /\ \E u \in 1..Len(ratings) : ratings[u] = RowScore(Val(printed)[TopK])
                                    /\ \A i \in 1..TopK : Val(printed)[i][1] # u - 1

====
